---------------------------- MODULE Spec2Model ----------------------------
(***************************************************************************)
(* The interrupt-to-task bridge of jizhaoqin/arceos:                       *)
(*   - the IRQ handler table and the x86 APIC enable/dispatch path         *)
(*     (axhal/src/irq.rs, axhal/src/platform/x86_pc/apic.rs),              *)
(*   - the byte bridge UART_RECEIVE_QUEUE + WAKER fed from the UART ISR    *)
(*     (axhal/src/notify_async_irq_handler.rs),                            *)
(*   - the stream adapter UartStream and the drain task async_uart_handler *)
(*     (axruntime/src/async_irq_runtime/async_uart_irq.rs),                *)
(*   - the cooperative executor that polls the drain task.  Its source     *)
(*     file (async_irq_runtime/executor.rs) is not part of the source      *)
(*     tree at hand; its three operations (spawn, run, the task waker) are *)
(*     modelled from section 4.4 of the specification.                     *)
(*                                                                         *)
(* Two execution contexts interleave at the granularity of the atomic      *)
(* operations of the shared objects (ArrayQueue::push/pop,                 *)
(* AtomicWaker::register/take/wake, the run-queue): the interrupt context  *)
(* (isr_pc) and the executor kernel thread (pc_exec).                      *)
(***************************************************************************)
EXTENDS Integers, Sequences, FiniteSets, TLC

---------------------------------------------------------------------------
(* Program constants *)

\* ArrayQueue::new(100)
QueueCapacity == 100

\* if buffer.len() < 1024
LineBufferLimit == 1024

\* pub const MAX_IRQ_COUNT: usize = 256
MAX_IRQ_COUNT == 256

\* pub const APIC_TIMER_VECTOR: u8 = 0xf0
APIC_TIMER_VECTOR == 240

\* pub const KEYBOARD_IRQ_NUM: usize = 0x21
KEYBOARD_IRQ_NUM == 33

\* const UART_IRQ_NUM: usize = 0x24
UART_IRQ_NUM == 36

\* a byte is a u8
ByteModulus == 256

---------------------------------------------------------------------------
(* Bounds of the model *)

\* bytes the UART hardware delivers in one behaviour of SpecLock
MaxLockPush == 1

\* bytes the receive FIFO of the device holds in SpecUart
MaxFifo == 2

\* the byte before the first byte of the stream the UART delivers
FirstByte == 10

\* the largest buf.len() of a Stdin::read call
MaxReadLen == 2

\* bytes the UART hardware delivers in one behaviour of SpecLive
MaxPush == 4

\* bytes the UART hardware delivers beyond QueueCapacity in one behaviour of Spec
MaxOverflow == 2

\* of these, the bytes that may arrive before UartStream::new has created the queue
MaxEarlyPush == 1

\* bytes before LineBufferLimit that arrive at any moment in SpecFill (the
\* earlier ones arrive while the drain task is parked)
MaxRace == 2

---------------------------------------------------------------------------
VARIABLES
    UART_RECEIVE_QUEUE, \* OnceCell<ArrayQueue<u8>>: [init, items]
    WAKER,              \* AtomicWaker: the set of registered task ids (0 or 1)
    RECEIVE_BUFFER,     \* SpinNoIrq<VecDeque<u8>>: the line buffer
    NEXT_ID,            \* TaskId::new's static counter
    task_ids,           \* history: the ids TaskId::new has returned, in order
    tasks,              \* executor: task id -> state of its future
    task_queue,         \* executor: the run-queue of task ids
    pc_exec,            \* position of the executor thread
    pc_exec2,           \* position of the thread a second init call starts
    cur_task,           \* the task being polled (a set: empty when none)
    cur_byte,           \* the byte poll_next has just returned (a sequence)
    isr_pc,             \* position of the interrupt context inside notify
    nPushed,            \* calls of notify_async_uart_irq_handler so far
    droppedFull,        \* "UART_RECEIVE_QUEUE full" diagnostics: push numbers
    droppedUninit,      \* "UART_RECEIVE_QUEUE uninitialized" diagnostics
    obtained,           \* history: the bytes poll_next has returned, in order
    cycle,              \* history: the poll cycle under observation
    IRQ_HANDLER_TABLE,  \* HandlerTable<MAX_IRQ_COUNT>: IRQ number -> handler
    IO_APIC,            \* the vectors whose IO-APIC line is enabled (unmasked)
    irq_last,           \* the last operation on the IRQ layer and its outcome
    stdin_pc,           \* position of the thread that calls Stdin::read
    stdin_n,            \* buf.len() of the Stdin::read call in progress
    stdin_first,        \* that call is in its first attempt (before the loop)
    stdin_call,         \* bytes the read_bytes call in progress has read
    stdin_buf,          \* BufReader<StdinRaw>: bytes buffered, not yet handed out
    stdin_yielded,      \* history: that call has yielded the thread
    consumed,           \* history: the bytes Stdin::read has returned, in order
    uart_fifo,          \* PL011: the bytes in the receive FIFO of the device
    uart_pc,            \* position of uart_irq_handler
    uart_rx,            \* its local is_receive_interrupt
    uart_byte,          \* the byte its getchar has returned, not yet passed on
    nArrived,           \* history: number of bytes the device has received
    uart_taken,         \* history: the bytes getchar has returned, in order
    uart_pushed,        \* history: the bytes passed to the notify function, in order
    reader_core,        \* the core the thread that calls Stdin::read runs on
    isr_on,             \* the core the UART ISR runs on, if it runs
    isr_base,           \* nPushed when that ISR was entered
    lock_pc             \* RECEIVE_BUFFER.lock(): out of it, spinning for it, holding it

bridgeVars == <<UART_RECEIVE_QUEUE, WAKER, RECEIVE_BUFFER, NEXT_ID, task_ids, tasks,
                task_queue, pc_exec, pc_exec2, cur_task, cur_byte, isr_pc,
                nPushed, droppedFull, droppedUninit, obtained, cycle>>

irqVars == <<IRQ_HANDLER_TABLE, IO_APIC, irq_last>>

consoleVars == <<stdin_pc, stdin_n, stdin_first, stdin_call, stdin_buf,
                 stdin_yielded, consumed>>

uartVars == <<uart_fifo, uart_pc, uart_rx, uart_byte, nArrived, uart_taken,
              uart_pushed>>

lockVars == <<reader_core, isr_on, isr_base, lock_pc>>

\* The variables of the contexts around the bridge
envVars == <<consoleVars, uartVars, lockVars>>

vars == <<bridgeVars, irqVars, envVars>>

---------------------------------------------------------------------------
(* Helpers *)

Range(s) == {s[i] : i \in 1..Len(s)}

\* The k-th byte the UART delivers.  The stream FirstByte + 1, FirstByte + 2,
\* ... (u8) has no repetition within the bounds, which makes every reordering,
\* duplication and loss visible, and it has a carriage return among its first
\* bytes, which makes the conversion of the console reader visible.
ByteAt(k) == (FirstByte + k) % ByteModulus

\* Mutant: a queue that accepts one byte more than its capacity.
QueueIsFullOffByOne(items) == Len(items) > QueueCapacity

\* crossbeam ArrayQueue::push: Err when the queue is full
QueueIsFull(items) == Len(items) >= QueueCapacity

\* The IRQ numbers and handlers the callers pass: both sides of the local-APIC
\* boundary (0xf0) and of the table size (256)
IrqVectors == {KEYBOARD_IRQ_NUM, UART_IRQ_NUM, APIC_TIMER_VECTOR - 1,
               APIC_TIMER_VECTOR, MAX_IRQ_COUNT - 1, MAX_IRQ_COUNT}

Handlers == {"uart_irq_handler", "other_handler"}

IrqOp(op, vector, handler, enabled, ret, events) ==
    [op |-> op, vector |-> vector, handler |-> handler, enabled |-> enabled,
     ret |-> ret, events |-> events]

NoIrqOp == IrqOp("none", 0, "", FALSE, FALSE, <<>>)

\* No poll cycle is under observation.
NoCycle == [st |-> "none", expect |-> <<>>, base |-> 0, popped |-> 0]

Init ==
    /\ UART_RECEIVE_QUEUE = [init |-> FALSE, items |-> <<>>]
    /\ WAKER = {}
    /\ RECEIVE_BUFFER = <<>>
    /\ NEXT_ID = 0
    /\ task_ids = <<>>
    /\ tasks = <<>>
    /\ task_queue = <<>>
    /\ pc_exec = "boot"
    /\ pc_exec2 = "none"
    /\ cur_task = {}
    /\ cur_byte = <<>>
    /\ isr_pc = "idle"
    /\ nPushed = 0
    /\ droppedFull = {}
    /\ droppedUninit = {}
    /\ obtained = <<>>
    /\ cycle = NoCycle
    /\ IRQ_HANDLER_TABLE = <<>>
    /\ IO_APIC = {}
    /\ irq_last = NoIrqOp
    /\ stdin_pc = "idle"
    /\ stdin_n = 0
    /\ stdin_first = FALSE
    /\ stdin_call = 0
    /\ stdin_buf = <<>>
    /\ stdin_yielded = FALSE
    /\ consumed = <<>>
    /\ uart_fifo = <<>>
    /\ uart_pc = "idle"
    /\ uart_rx = FALSE
    /\ uart_byte = <<>>
    /\ nArrived = 0
    /\ uart_taken = <<>>
    /\ uart_pushed = <<>>
    /\ reader_core = 0
    /\ isr_on = {}
    /\ isr_base = 0
    /\ lock_pc = [ctx \in {"drain", "reader"} |-> "out"]

---------------------------------------------------------------------------
(* The executor (modelled from section 4.4 of the specification) *)

\* spawn(computation): the task is stored and inserted Runnable
Spawn(ts, id) == (id :> "start") @@ ts

\* Mutant: a waker that pushes the id without looking at the run-queue.
WakeTaskAlways(q, id) == Append(q, id)

\* Firing a task's waker re-inserts its id into the run-queue; firing it while
\* the id is already there has no effect.
WakeTask(q, id) == IF id \in Range(q) THEN q ELSE Append(q, id)

\* Mutant: a counter that TaskId::new reads without advancing it.
FetchAddNone(n) == n

\* NEXT_ID.fetch_add(1, Ordering::Relaxed) on an AtomicU64: one atomic step
\* that returns the old value and stores the successor.  The counter wraps
\* only after 2^64 calls, which no behaviour of the model comes near.
FetchAdd(n) == n + 1

\* init_async_irq_runtime: the executor thread starts, creates the executor and
\* spawns the drain task with a fresh TaskId (NEXT_ID.fetch_add(1)).
init_async_irq_runtime ==
    /\ pc_exec = "boot"
    /\ NEXT_ID' = FetchAdd(NEXT_ID)
    /\ task_ids' = Append(task_ids, NEXT_ID)
    /\ tasks' = Spawn(tasks, NEXT_ID)
    /\ task_queue' = Append(task_queue, NEXT_ID)
    /\ pc_exec' = "run"
    /\ UNCHANGED <<UART_RECEIVE_QUEUE, WAKER, RECEIVE_BUFFER, cur_task, cur_byte,
                   isr_pc, nPushed, droppedFull, droppedUninit, obtained, cycle>>
    /\ UNCHANGED <<pc_exec2, irqVars, envVars>>

\* The poll cycle that starts now is observed when it starts with the bridge
\* initialized, no push in flight and room in the line buffer for the queue.
CycleAtPollStart ==
    IF /\ UART_RECEIVE_QUEUE.init
       /\ isr_pc = "idle"
       /\ Len(RECEIVE_BUFFER) + Len(UART_RECEIVE_QUEUE.items) <= LineBufferLimit
    THEN [st |-> "polling",
          expect |-> RECEIVE_BUFFER \o UART_RECEIVE_QUEUE.items,
          base |-> Len(RECEIVE_BUFFER),
          popped |-> Len(obtained)]
    ELSE NoCycle

\* Where a poll of a task enters or resumes its future
PollEntry(future) ==
    CASE future = "start" -> "new"
      [] future = "example" -> "example"
      [] OTHER -> "pop1"

\* Mutant: a run loop that takes the newest id of the run-queue.
ExecutorRunNewest ==
    /\ pc_exec = "run"
    /\ task_queue # <<>>
    /\ LET id == task_queue[Len(task_queue)] IN
        /\ task_queue' = SubSeq(task_queue, 1, Len(task_queue) - 1)
        /\ IF id \in DOMAIN tasks
           THEN /\ cur_task' = {id}
                /\ pc_exec' = PollEntry(tasks[id])
                /\ cycle' = CycleAtPollStart
           ELSE /\ UNCHANGED <<cur_task, pc_exec, cycle>>
    /\ UNCHANGED <<UART_RECEIVE_QUEUE, WAKER, RECEIVE_BUFFER, NEXT_ID, tasks,
                   cur_byte, isr_pc, nPushed, droppedFull, droppedUninit, obtained>>
    /\ UNCHANGED <<pc_exec2, task_ids, irqVars, envVars>>

\* run(): pop the next task id from the run-queue and poll that task.  A first
\* poll enters the body of async_uart_handler, a later one resumes at the
\* .await of uart_stream.next().
ExecutorRunReady ==
    /\ pc_exec = "run"
    /\ task_queue # <<>>
    /\ LET id == Head(task_queue) IN
        /\ task_queue' = Tail(task_queue)
        /\ IF id \in DOMAIN tasks
           THEN /\ cur_task' = {id}
                /\ pc_exec' = PollEntry(tasks[id])
                /\ cycle' = CycleAtPollStart
           ELSE /\ UNCHANGED <<cur_task, pc_exec, cycle>>
    /\ UNCHANGED <<UART_RECEIVE_QUEUE, WAKER, RECEIVE_BUFFER, NEXT_ID, tasks,
                   cur_byte, isr_pc, nPushed, droppedFull, droppedUninit, obtained>>
    /\ UNCHANGED <<pc_exec2, task_ids, irqVars, envVars>>

\* Mutant: a run loop that keeps a completed task and puts it back into the
\* run-queue.
ExecutorPollReadyRequeues ==
    /\ pc_exec = "ready"
    /\ pc_exec' = "run"
    /\ cur_task' = {}
    /\ task_queue' = Append(task_queue, CHOOSE t \in cur_task : TRUE)
    /\ UNCHANGED <<UART_RECEIVE_QUEUE, WAKER, RECEIVE_BUFFER, NEXT_ID, tasks,
                   cur_byte, isr_pc, nPushed, droppedFull, droppedUninit,
                   obtained, cycle>>
    /\ UNCHANGED <<pc_exec2, task_ids, irqVars, envVars>>

\* The poll returned Poll::Ready(()): the task is Completed and removed.
ExecutorPollReady ==
    /\ pc_exec = "ready"
    /\ pc_exec' = "run"
    /\ tasks' = [t \in DOMAIN tasks \ cur_task |-> tasks[t]]
    /\ cur_task' = {}
    /\ UNCHANGED <<UART_RECEIVE_QUEUE, WAKER, RECEIVE_BUFFER, NEXT_ID, task_queue,
                   cur_byte, isr_pc, nPushed, droppedFull, droppedUninit,
                   obtained, cycle>>
    /\ UNCHANGED <<pc_exec2, task_ids, irqVars, envVars>>

\* The poll returned Poll::Pending: the task stays stored, the run loop goes on.
ExecutorPollPending ==
    /\ pc_exec = "pending"
    /\ pc_exec' = "run"
    /\ cur_task' = {}
    /\ cycle' = IF cycle.st = "polling" THEN [cycle EXCEPT !.st = "done"] ELSE cycle
    /\ UNCHANGED <<UART_RECEIVE_QUEUE, WAKER, RECEIVE_BUFFER, NEXT_ID, tasks,
                   task_queue, cur_byte, isr_pc, nPushed, droppedFull,
                   droppedUninit, obtained>>
    /\ UNCHANGED <<pc_exec2, task_ids, irqVars, envVars>>

---------------------------------------------------------------------------
(* The stream adapter and the drain task *)

\* Mutant: an initialization that installs a fresh queue every time.
TryInitOnceReplaces(cell) ==
    [ok |-> TRUE, cell |-> [init |-> TRUE, items |-> <<>>]]

\* OnceCell::try_init_once(|| ArrayQueue::new(100)): Ok with a new, empty queue
\* when the cell is uninitialized; Err, with the cell untouched, otherwise.
TryInitOnce(cell) ==
    IF cell.init
    THEN [ok |-> FALSE, cell |-> cell]
    ELSE [ok |-> TRUE, cell |-> [init |-> TRUE, items |-> <<>>]]

\* UartStream::new: try_init_once(|| ArrayQueue::new(100)).expect(..) panics
\* when the cell is already initialized.
UartStream_new ==
    /\ pc_exec = "new"
    /\ LET r == TryInitOnce(UART_RECEIVE_QUEUE) IN
        /\ UART_RECEIVE_QUEUE' = r.cell
        /\ IF r.ok
           THEN /\ tasks' = [tasks EXCEPT ![CHOOSE t \in cur_task : TRUE] = "await_next"]
                /\ pc_exec' = "pop1"
           ELSE /\ pc_exec' = "panicked"
                /\ UNCHANGED tasks
    /\ UNCHANGED <<WAKER, RECEIVE_BUFFER, NEXT_ID, task_queue, cur_task, cur_byte,
                   isr_pc, nPushed, droppedFull, droppedUninit, obtained, cycle>>
    /\ UNCHANGED <<pc_exec2, task_ids, irqVars, envVars>>

\* Mutant: a pop that takes the newest byte instead of the oldest.
QueuePopNewest(onSome, onNone) ==
    /\ UART_RECEIVE_QUEUE.init
    /\ IF UART_RECEIVE_QUEUE.items # <<>>
       THEN LET n == Len(UART_RECEIVE_QUEUE.items) IN
            /\ cur_byte' = <<UART_RECEIVE_QUEUE.items[n]>>
            /\ obtained' = Append(obtained, UART_RECEIVE_QUEUE.items[n])
            /\ UART_RECEIVE_QUEUE' =
                   [UART_RECEIVE_QUEUE EXCEPT
                       !.items = SubSeq(UART_RECEIVE_QUEUE.items, 1, n - 1)]
            /\ pc_exec' = onSome
       ELSE /\ pc_exec' = onNone
            /\ UNCHANGED <<cur_byte, obtained, UART_RECEIVE_QUEUE>>

\* ArrayQueue::pop, and where poll_next goes with its result
QueuePop(onSome, onNone) ==
    /\ UART_RECEIVE_QUEUE.init
    /\ IF UART_RECEIVE_QUEUE.items # <<>>
       THEN /\ cur_byte' = <<Head(UART_RECEIVE_QUEUE.items)>>
            /\ obtained' = Append(obtained, Head(UART_RECEIVE_QUEUE.items))
            /\ UART_RECEIVE_QUEUE' =
                   [UART_RECEIVE_QUEUE EXCEPT !.items = Tail(UART_RECEIVE_QUEUE.items)]
            /\ pc_exec' = onSome
       ELSE /\ pc_exec' = onNone
            /\ UNCHANGED <<cur_byte, obtained, UART_RECEIVE_QUEUE>>

\* Mutant: a poll_next that suspends as soon as its first pop finds the queue
\* empty, without registering the waker and without a second pop.
poll_next_pop_suspends ==
    /\ pc_exec = "pop1"
    /\ QueuePop("append", "pending")
    /\ UNCHANGED <<WAKER, RECEIVE_BUFFER, NEXT_ID, tasks, task_queue, cur_task,
                   isr_pc, nPushed, droppedFull, droppedUninit, cycle>>
    /\ UNCHANGED <<pc_exec2, task_ids, irqVars, envVars>>

\* poll_next: if let Some(byte) = queue.pop() { return Poll::Ready(Some(byte)) }
poll_next_pop ==
    /\ pc_exec = "pop1"
    /\ QueuePop("append", "register")
    /\ UNCHANGED <<WAKER, RECEIVE_BUFFER, NEXT_ID, tasks, task_queue, cur_task,
                   isr_pc, nPushed, droppedFull, droppedUninit, cycle>>
    /\ UNCHANGED <<pc_exec2, task_ids, irqVars, envVars>>

\* poll_next: WAKER.register(cx.waker()), replacing what was registered
poll_next_register ==
    /\ pc_exec = "register"
    /\ WAKER' = cur_task
    /\ pc_exec' = "pop2"
    /\ UNCHANGED <<UART_RECEIVE_QUEUE, RECEIVE_BUFFER, NEXT_ID, tasks, task_queue,
                   cur_task, cur_byte, isr_pc, nPushed, droppedFull, droppedUninit,
                   obtained, cycle>>
    /\ UNCHANGED <<pc_exec2, task_ids, irqVars, envVars>>

\* Mutant: a poll_next that suspends right after registering the waker,
\* without looking at the queue again.
poll_next_no_recheck ==
    /\ pc_exec = "pop2"
    /\ pc_exec' = "pending"
    /\ UNCHANGED <<UART_RECEIVE_QUEUE, WAKER, RECEIVE_BUFFER, NEXT_ID, tasks,
                   task_queue, cur_task, cur_byte, isr_pc, nPushed, droppedFull,
                   droppedUninit, obtained, cycle>>
    /\ UNCHANGED <<pc_exec2, task_ids, irqVars, envVars>>

\* Mutant: a poll_next that reports the end of the stream, Poll::Ready(None),
\* when the queue is still empty after the registration.
poll_next_end_of_stream ==
    /\ pc_exec = "pop2"
    /\ QueuePop("take", "append")
    /\ UNCHANGED <<WAKER, RECEIVE_BUFFER, NEXT_ID, tasks, task_queue, cur_task,
                   isr_pc, nPushed, droppedFull, droppedUninit, cycle>>
    /\ UNCHANGED <<pc_exec2, task_ids, irqVars, envVars>>

\* poll_next: match queue.pop() { Some => .., None => Poll::Pending }
poll_next_pop_again ==
    /\ pc_exec = "pop2"
    /\ QueuePop("take", "pending")
    /\ UNCHANGED <<WAKER, RECEIVE_BUFFER, NEXT_ID, tasks, task_queue, cur_task,
                   isr_pc, nPushed, droppedFull, droppedUninit, cycle>>
    /\ UNCHANGED <<pc_exec2, task_ids, irqVars, envVars>>

\* poll_next: Some(byte) => { WAKER.take(); Poll::Ready(Some(byte)) }
poll_next_take ==
    /\ pc_exec = "take"
    /\ WAKER' = {}
    /\ pc_exec' = "append"
    /\ UNCHANGED <<UART_RECEIVE_QUEUE, RECEIVE_BUFFER, NEXT_ID, tasks, task_queue,
                   cur_task, cur_byte, isr_pc, nPushed, droppedFull, droppedUninit,
                   obtained, cycle>>
    /\ UNCHANGED <<pc_exec2, task_ids, irqVars, envVars>>

\* Mutant: a bound that admits one byte more (<= in place of <).
LineBufferPushInclusive(buffer, byte) ==
    IF Len(buffer) <= LineBufferLimit THEN Append(buffer, byte) ELSE buffer

\* Mutant: push_front in place of push_back.
LineBufferPushFront(buffer, byte) ==
    IF Len(buffer) < LineBufferLimit THEN <<byte>> \o buffer ELSE buffer

\* if buffer.len() < 1024 { buffer.push_back(byte) }
LineBufferPush(buffer, byte) ==
    IF Len(buffer) < LineBufferLimit THEN Append(buffer, byte) ELSE buffer

\* async_uart_handler: while let Some(byte) = uart_stream.next().await { .. }.
\* With Some(byte) the body runs and the loop awaits the next byte; with None
\* the loop ends and the future of the task completes.
async_uart_handler_body ==
    /\ pc_exec = "append"
    /\ IF cur_byte # <<>>
       THEN /\ RECEIVE_BUFFER' = LineBufferPush(RECEIVE_BUFFER, cur_byte[1])
            /\ cur_byte' = <<>>
            /\ pc_exec' = "pop1"
            /\ UNCHANGED tasks
       ELSE /\ tasks' = [tasks EXCEPT ![CHOOSE t \in cur_task : TRUE] = "completed"]
            /\ pc_exec' = "ready"
            /\ UNCHANGED <<RECEIVE_BUFFER, cur_byte>>
    /\ UNCHANGED <<UART_RECEIVE_QUEUE, WAKER, NEXT_ID, task_queue, cur_task,
                   isr_pc, nPushed, droppedFull, droppedUninit, obtained, cycle>>
    /\ UNCHANGED <<pc_exec2, task_ids, irqVars, envVars>>

---------------------------------------------------------------------------
(* The bridge push, in interrupt context *)

\* Mutant: a push that makes room by evicting the oldest byte (force_push).
notify_force_push(limit) ==
    /\ isr_pc = "idle"
    /\ nPushed < limit
    /\ ~UART_RECEIVE_QUEUE.init => nPushed < MaxEarlyPush
    /\ nPushed' = nPushed + 1
    /\ cycle' = NoCycle
    /\ IF ~UART_RECEIVE_QUEUE.init
       THEN /\ droppedUninit' = droppedUninit \cup {nPushed + 1}
            /\ UNCHANGED <<UART_RECEIVE_QUEUE, droppedFull, isr_pc>>
       ELSE /\ UART_RECEIVE_QUEUE' =
                   [UART_RECEIVE_QUEUE EXCEPT
                       !.items = Append(IF QueueIsFull(UART_RECEIVE_QUEUE.items)
                                        THEN Tail(UART_RECEIVE_QUEUE.items)
                                        ELSE UART_RECEIVE_QUEUE.items,
                                        ByteAt(nPushed + 1))]
            /\ isr_pc' = "wake"
            /\ UNCHANGED <<droppedFull, droppedUninit>>
    /\ UNCHANGED <<WAKER, RECEIVE_BUFFER, NEXT_ID, tasks, task_queue, pc_exec,
                   cur_task, cur_byte, obtained>>
    /\ UNCHANGED <<pc_exec2, task_ids, irqVars, envVars>>

\* Mutant: a push that goes on to WAKER.wake() although the queue was full.
notify_push_wakes_on_full(limit) ==
    /\ isr_pc = "idle"
    /\ nPushed < limit
    /\ ~UART_RECEIVE_QUEUE.init => nPushed < MaxEarlyPush
    /\ nPushed' = nPushed + 1
    /\ cycle' = NoCycle
    /\ IF ~UART_RECEIVE_QUEUE.init
       THEN /\ droppedUninit' = droppedUninit \cup {nPushed + 1}
            /\ UNCHANGED <<UART_RECEIVE_QUEUE, droppedFull, isr_pc>>
       ELSE IF QueueIsFull(UART_RECEIVE_QUEUE.items)
       THEN /\ droppedFull' = droppedFull \cup {nPushed + 1}
            /\ isr_pc' = "wake"
            /\ UNCHANGED <<UART_RECEIVE_QUEUE, droppedUninit>>
       ELSE /\ UART_RECEIVE_QUEUE' =
                   [UART_RECEIVE_QUEUE EXCEPT
                       !.items = Append(UART_RECEIVE_QUEUE.items, ByteAt(nPushed + 1))]
            /\ isr_pc' = "wake"
            /\ UNCHANGED <<droppedFull, droppedUninit>>
    /\ UNCHANGED <<WAKER, RECEIVE_BUFFER, NEXT_ID, tasks, task_queue, pc_exec,
                   cur_task, cur_byte, obtained>>
    /\ UNCHANGED <<pc_exec2, task_ids, irqVars, envVars>>

\* Mutant: a push that takes the queue with try_get().expect(..), as poll_next
\* does, and so panics in interrupt context while the cell is uninitialized.
notify_push_expects_init(limit) ==
    /\ isr_pc = "idle"
    /\ nPushed < limit
    /\ ~UART_RECEIVE_QUEUE.init => nPushed < MaxEarlyPush
    /\ nPushed' = nPushed + 1
    /\ cycle' = NoCycle
    /\ IF ~UART_RECEIVE_QUEUE.init
       THEN /\ isr_pc' = "panicked"
            /\ UNCHANGED <<UART_RECEIVE_QUEUE, droppedFull, droppedUninit>>
       ELSE IF QueueIsFull(UART_RECEIVE_QUEUE.items)
       THEN /\ droppedFull' = droppedFull \cup {nPushed + 1}
            /\ UNCHANGED <<UART_RECEIVE_QUEUE, droppedUninit, isr_pc>>
       ELSE /\ UART_RECEIVE_QUEUE' =
                   [UART_RECEIVE_QUEUE EXCEPT
                       !.items = Append(UART_RECEIVE_QUEUE.items, ByteAt(nPushed + 1))]
            /\ isr_pc' = "wake"
            /\ UNCHANGED <<droppedFull, droppedUninit>>
    /\ UNCHANGED <<WAKER, RECEIVE_BUFFER, NEXT_ID, tasks, task_queue, pc_exec,
                   cur_task, cur_byte, obtained>>
    /\ UNCHANGED <<pc_exec2, task_ids, irqVars, envVars>>

\* notify_async_uart_irq_handler up to the outcome of queue.push(byte): the
\* byte is dropped with a diagnostic when the cell is uninitialized or the
\* queue is full, and enqueued otherwise.
notify_push(limit) ==
    /\ isr_pc = "idle"
    /\ nPushed < limit
    /\ ~UART_RECEIVE_QUEUE.init => nPushed < MaxEarlyPush
    /\ nPushed' = nPushed + 1
    /\ cycle' = NoCycle
    /\ IF ~UART_RECEIVE_QUEUE.init
       THEN /\ droppedUninit' = droppedUninit \cup {nPushed + 1}
            /\ UNCHANGED <<UART_RECEIVE_QUEUE, droppedFull, isr_pc>>
       ELSE IF QueueIsFull(UART_RECEIVE_QUEUE.items)
       THEN /\ droppedFull' = droppedFull \cup {nPushed + 1}
            /\ UNCHANGED <<UART_RECEIVE_QUEUE, droppedUninit, isr_pc>>
       ELSE /\ UART_RECEIVE_QUEUE' =
                   [UART_RECEIVE_QUEUE EXCEPT
                       !.items = Append(UART_RECEIVE_QUEUE.items, ByteAt(nPushed + 1))]
            /\ isr_pc' = "wake"
            /\ UNCHANGED <<droppedFull, droppedUninit>>
    /\ UNCHANGED <<WAKER, RECEIVE_BUFFER, NEXT_ID, tasks, task_queue, pc_exec,
                   cur_task, cur_byte, obtained>>
    /\ UNCHANGED <<pc_exec2, task_ids, irqVars, envVars>>

\* Mutant: a wake that fires the waker of the first task although none is
\* registered.
WakerWakeUnregistered(q, registered) ==
    IF registered = {} THEN WakeTask(q, 0) ELSE WakeTask(q, CHOOSE t \in registered : TRUE)

\* AtomicWaker::wake: take the registered waker, if any, and fire it
WakerWake(q, registered) ==
    IF registered = {} THEN q ELSE WakeTask(q, CHOOSE t \in registered : TRUE)

\* Mutant: a wake that takes the registered waker and drops it unfired.
notify_wake_drops_waker ==
    /\ isr_pc = "wake"
    /\ WAKER' = {}
    /\ isr_pc' = "idle"
    /\ UNCHANGED <<UART_RECEIVE_QUEUE, RECEIVE_BUFFER, NEXT_ID, tasks, task_queue,
                   pc_exec, cur_task, cur_byte, nPushed, droppedFull,
                   droppedUninit, obtained, cycle>>
    /\ UNCHANGED <<pc_exec2, task_ids, irqVars, envVars>>

\* notify_async_uart_irq_handler: WAKER.wake() after a successful push
notify_wake ==
    /\ isr_pc = "wake"
    /\ task_queue' = WakerWake(task_queue, WAKER)
    /\ WAKER' = {}
    /\ isr_pc' = "idle"
    /\ UNCHANGED <<UART_RECEIVE_QUEUE, RECEIVE_BUFFER, NEXT_ID, tasks, pc_exec,
                   cur_task, cur_byte, nPushed, droppedFull, droppedUninit,
                   obtained, cycle>>
    /\ UNCHANGED <<pc_exec2, task_ids, irqVars, envVars>>

---------------------------------------------------------------------------
ExecutorStep ==
    \/ init_async_irq_runtime
    \/ ExecutorRunReady
    \/ ExecutorPollPending
    \/ UartStream_new
    \/ poll_next_pop
    \/ poll_next_register
    \/ poll_next_pop_again
    \/ poll_next_take
    \/ async_uart_handler_body

\* The bridge with enough pushes to overflow the queue
Next ==
    \/ ExecutorStep
    \/ notify_push(QueueCapacity + MaxOverflow)
    \/ notify_wake

Spec == Init /\ [][Next]_vars

\* The bridge with a few pushes, the executor thread scheduled fairly and the
\* interrupt handler running to completion
NextLive ==
    \/ ExecutorStep
    \/ notify_push(MaxPush)
    \/ notify_wake

SpecLive == Init /\ [][NextLive]_vars /\ WF_vars(ExecutorStep) /\ WF_vars(notify_wake)

---------------------------------------------------------------------------
(* The first version of the runtime (async_irq_executor/async_irqs.rs), with
   its own UART_RECEIVE_QUEUE and WAKER of the same shape, fed by add_uart_data,
   which has the body of notify_async_uart_irq_handler *)

\* init_async_irq_system: the executor thread spawns example_task and then
\* the drain task, each with a fresh TaskId, and runs.
init_async_irq_system ==
    /\ pc_exec = "boot"
    /\ LET id1 == NEXT_ID
           id2 == FetchAdd(NEXT_ID)
       IN /\ NEXT_ID' = FetchAdd(id2)
          /\ task_ids' = task_ids \o <<id1, id2>>
          /\ tasks' = Spawn((id1 :> "example") @@ tasks, id2)
          /\ task_queue' = Append(Append(task_queue, id1), id2)
    /\ pc_exec' = "run"
    /\ UNCHANGED <<UART_RECEIVE_QUEUE, WAKER, RECEIVE_BUFFER, cur_task, cur_byte,
                   isr_pc, nPushed, droppedFull, droppedUninit, obtained, cycle>>
    /\ UNCHANGED <<pc_exec2, irqVars, envVars>>

\* example_task: async_number().await is ready at once, the number is printed
\* and the future completes in its first poll.
example_task ==
    /\ pc_exec = "example"
    /\ tasks' = [tasks EXCEPT ![CHOOSE t \in cur_task : TRUE] = "completed"]
    /\ pc_exec' = "ready"
    /\ UNCHANGED <<UART_RECEIVE_QUEUE, WAKER, RECEIVE_BUFFER, NEXT_ID, task_queue,
                   cur_task, cur_byte, isr_pc, nPushed, droppedFull, droppedUninit,
                   obtained, cycle>>
    /\ UNCHANGED <<pc_exec2, task_ids, irqVars, envVars>>

\* async_uart_handler of this version: the body of the loop only prints.
async_uart_handler_print ==
    /\ pc_exec = "append"
    /\ IF cur_byte # <<>>
       THEN /\ cur_byte' = <<>>
            /\ pc_exec' = "pop1"
            /\ UNCHANGED tasks
       ELSE /\ tasks' = [tasks EXCEPT ![CHOOSE t \in cur_task : TRUE] = "completed"]
            /\ pc_exec' = "ready"
            /\ UNCHANGED cur_byte
    /\ UNCHANGED <<UART_RECEIVE_QUEUE, WAKER, RECEIVE_BUFFER, NEXT_ID, task_queue,
                   cur_task, isr_pc, nPushed, droppedFull, droppedUninit, obtained,
                   cycle>>
    /\ UNCHANGED <<pc_exec2, task_ids, irqVars, envVars>>

NextSystem ==
    \/ init_async_irq_system
    \/ ExecutorRunReady
    \/ ExecutorPollPending
    \/ ExecutorPollReady
    \/ example_task
    \/ UartStream_new
    \/ poll_next_pop
    \/ poll_next_register
    \/ poll_next_pop_again
    \/ poll_next_take
    \/ async_uart_handler_print
    \/ notify_push(MaxPush)
    \/ notify_wake

SpecSystem == Init /\ [][NextSystem]_vars

---------------------------------------------------------------------------
(* Filling the line buffer *)

\* The drain task is parked: the executor thread idles in its run loop.
DrainParked == pc_exec = "run" /\ task_queue = <<>>

\* No reader takes bytes out of the line buffer, and the UART delivers more
\* bytes than the line buffer holds.  To get there, all bytes but the last
\* MaxRace before LineBufferLimit arrive while the drain task is parked; the
\* later ones arrive at any moment.
NextFill ==
    \/ ExecutorStep
    \/ /\ nPushed + MaxRace < LineBufferLimit => DrainParked
       /\ notify_push(LineBufferLimit + MaxOverflow)
    \/ notify_wake

SpecFill == Init /\ [][NextFill]_vars

---------------------------------------------------------------------------
(* A second initialization of the runtime *)

\* init_async_irq_runtime called once more, after the first drain task has
\* created the queue: another thread with its own executor, whose drain task
\* (a fresh TaskId) is polled for the first time and enters UartStream::new.
init_async_irq_runtime_again ==
    /\ pc_exec2 = "none"
    /\ UART_RECEIVE_QUEUE.init
    /\ NEXT_ID' = FetchAdd(NEXT_ID)
    /\ task_ids' = Append(task_ids, NEXT_ID)
    /\ pc_exec2' = "new"
    /\ UNCHANGED <<UART_RECEIVE_QUEUE, WAKER, RECEIVE_BUFFER, tasks, task_queue,
                   pc_exec, cur_task, cur_byte, isr_pc, nPushed, droppedFull,
                   droppedUninit, obtained, cycle>>
    /\ UNCHANGED <<irqVars, envVars>>

\* UartStream::new on that thread: .expect(..) panics on the Err of
\* try_init_once.
UartStream_new_again ==
    /\ pc_exec2 = "new"
    /\ LET r == TryInitOnce(UART_RECEIVE_QUEUE) IN
        /\ UART_RECEIVE_QUEUE' = r.cell
        /\ pc_exec2' = IF r.ok THEN "pop1" ELSE "panicked"
    /\ UNCHANGED <<WAKER, RECEIVE_BUFFER, NEXT_ID, task_ids, tasks, task_queue, pc_exec,
                   cur_task, cur_byte, isr_pc, nPushed, droppedFull,
                   droppedUninit, obtained, cycle>>
    /\ UNCHANGED <<irqVars, envVars>>

\* The bridge with a few pushes and a second initialization
NextReinit ==
    \/ ExecutorStep
    \/ notify_push(MaxPush)
    \/ notify_wake
    \/ init_async_irq_runtime_again
    \/ UartStream_new_again

SpecReinit == Init /\ [][NextReinit]_vars

---------------------------------------------------------------------------
(* The interrupt handler of the PL011 UART.  The device receives the bytes of
   the stream into its FIFO; uart_irq_handler reads the cause, acknowledges,
   and on a receive interrupt moves byte after byte from the FIFO to
   notify_async_uart_irq_handler.  Every UART.lock() operation is one step *)

\* bytes the device receives in one behaviour of SpecUart: enough to fill the
\* bridge while the executor thread is not scheduled, and MaxOverflow more
BurstEnd == MaxRace + QueueCapacity + 1

\* The device receives the next byte of the stream
uart_receive ==
    /\ nArrived < BurstEnd + MaxOverflow
    /\ ~UART_RECEIVE_QUEUE.init => nArrived < MaxEarlyPush
    /\ Len(uart_fifo) < MaxFifo
    /\ nArrived' = nArrived + 1
    /\ uart_fifo' = Append(uart_fifo, ByteAt(nArrived + 1))
    /\ UNCHANGED <<uart_pc, uart_rx, uart_byte, uart_taken, uart_pushed>>
    /\ UNCHANGED <<bridgeVars, irqVars, consoleVars, lockVars>>

\* uart_irq_handler is entered for an interrupt of the UART, whatever its
\* cause: let is_receive_interrupt = UART.lock().is_receive_interrupt()
uart_irq_handler ==
    /\ uart_pc = "idle"
    /\ isr_pc = "idle"
    /\ \E rx \in BOOLEAN : uart_rx' = rx
    /\ uart_pc' = "ack"
    /\ UNCHANGED <<uart_fifo, uart_byte, nArrived, uart_taken, uart_pushed>>
    /\ UNCHANGED <<bridgeVars, irqVars, consoleVars, lockVars>>

\* UART.lock().ack_interrupts(); if is_receive_interrupt { .. }
uart_ack_interrupts ==
    /\ uart_pc = "ack"
    /\ uart_pc' = IF uart_rx THEN "getchar" ELSE "idle"
    /\ UNCHANGED <<uart_fifo, uart_rx, uart_byte, nArrived, uart_taken, uart_pushed>>
    /\ UNCHANGED <<bridgeVars, irqVars, consoleVars, lockVars>>

\* while let Some(byte) = UART.lock().getchar(): the head of the FIFO, or None
\* and the handler returns
uart_getchar ==
    /\ uart_pc = "getchar"
    /\ isr_pc = "idle"
    /\ IF uart_fifo # <<>>
       THEN /\ uart_byte' = <<Head(uart_fifo)>>
            /\ uart_fifo' = Tail(uart_fifo)
            /\ uart_taken' = Append(uart_taken, Head(uart_fifo))
            /\ uart_pc' = "notify"
       ELSE /\ uart_pc' = "idle"
            /\ UNCHANGED <<uart_byte, uart_fifo, uart_taken>>
    /\ UNCHANGED <<uart_rx, nArrived, uart_pushed>>
    /\ UNCHANGED <<bridgeVars, irqVars, consoleVars, lockVars>>

\* Mutant: a handler that stops reading the FIFO when the bridge has dropped
\* the byte.
uart_notify_stops_when_dropped ==
    /\ uart_pc = "notify"
    /\ isr_pc = "idle"
    /\ nPushed' = nPushed + 1
    /\ cycle' = NoCycle
    /\ uart_pushed' = Append(uart_pushed, uart_byte[1])
    /\ uart_byte' = <<>>
    /\ IF ~UART_RECEIVE_QUEUE.init
       THEN /\ droppedUninit' = droppedUninit \cup {nPushed + 1}
            /\ uart_pc' = "idle"
            /\ UNCHANGED <<UART_RECEIVE_QUEUE, droppedFull, isr_pc>>
       ELSE IF QueueIsFull(UART_RECEIVE_QUEUE.items)
       THEN /\ droppedFull' = droppedFull \cup {nPushed + 1}
            /\ uart_pc' = "idle"
            /\ UNCHANGED <<UART_RECEIVE_QUEUE, droppedUninit, isr_pc>>
       ELSE /\ UART_RECEIVE_QUEUE' =
                   [UART_RECEIVE_QUEUE EXCEPT
                       !.items = Append(UART_RECEIVE_QUEUE.items, uart_byte[1])]
            /\ isr_pc' = "wake"
            /\ uart_pc' = "getchar"
            /\ UNCHANGED <<droppedFull, droppedUninit>>
    /\ UNCHANGED <<uart_fifo, uart_rx, nArrived, uart_taken>>
    /\ UNCHANGED <<WAKER, RECEIVE_BUFFER, NEXT_ID, tasks, task_queue, pc_exec,
                   cur_task, cur_byte, obtained>>
    /\ UNCHANGED <<pc_exec2, task_ids, irqVars, consoleVars, lockVars>>

\* notify_async_uart_irq_handler(byte) in the body of the loop, up to its push:
\* the byte is dropped (no queue, or queue full) and the function returns, or
\* it is enqueued and WAKER.wake() follows (notify_wake); then the loop reads on
uart_notify ==
    /\ uart_pc = "notify"
    /\ isr_pc = "idle"
    /\ nPushed' = nPushed + 1
    /\ cycle' = NoCycle
    /\ uart_pushed' = Append(uart_pushed, uart_byte[1])
    /\ uart_byte' = <<>>
    /\ uart_pc' = "getchar"
    /\ IF ~UART_RECEIVE_QUEUE.init
       THEN /\ droppedUninit' = droppedUninit \cup {nPushed + 1}
            /\ UNCHANGED <<UART_RECEIVE_QUEUE, droppedFull, isr_pc>>
       ELSE IF QueueIsFull(UART_RECEIVE_QUEUE.items)
       THEN /\ droppedFull' = droppedFull \cup {nPushed + 1}
            /\ UNCHANGED <<UART_RECEIVE_QUEUE, droppedUninit, isr_pc>>
       ELSE /\ UART_RECEIVE_QUEUE' =
                   [UART_RECEIVE_QUEUE EXCEPT
                       !.items = Append(UART_RECEIVE_QUEUE.items, uart_byte[1])]
            /\ isr_pc' = "wake"
            /\ UNCHANGED <<droppedFull, droppedUninit>>
    /\ UNCHANGED <<uart_fifo, uart_rx, nArrived, uart_taken>>
    /\ UNCHANGED <<WAKER, RECEIVE_BUFFER, NEXT_ID, tasks, task_queue, pc_exec,
                   cur_task, cur_byte, obtained>>
    /\ UNCHANGED <<pc_exec2, task_ids, irqVars, consoleVars, lockVars>>

\* The executor thread is scheduled before the burst and after it
ExecutorScheduled == nPushed <= MaxRace \/ nPushed >= BurstEnd

NextUart ==
    \/ ExecutorScheduled /\ ExecutorStep
    \/ uart_receive
    \/ uart_irq_handler
    \/ uart_ack_interrupts
    \/ uart_getchar
    \/ uart_notify
    \/ notify_wake

SpecUart == Init /\ [][NextUart]_vars

---------------------------------------------------------------------------
(* The console reader: Stdin::read of a thread, over BufReader<StdinRaw>, over
   ax_console_read_bytes, over read_bytes and getchar of the line buffer.  One
   getchar (lock, pop_front, unlock) is one step; the drain task runs between
   two of them.  The buffer of the BufReader is larger than the number of bytes
   of a behaviour, so that it never fills and the read that bypasses it never
   happens *)

Min(a, b) == IF a < b THEN a ELSE b

\* Mutant: a console read that hands the bytes on as they are.
CrToLfKeeps(c) == c

\* ax_console_read_bytes: a carriage return is replaced by a line feed
CrToLf(c) == IF c = 13 THEN 10 ELSE c

\* Mutant: a reader that retries at once after every empty attempt.
AfterEmptyAttemptSpins(first) == "read"

\* Stdin::read after an attempt that read nothing: the first attempt is followed
\* by the first attempt of the loop, an attempt of the loop by yield_now
AfterEmptyAttempt(first) == IF first THEN "read" ELSE "yield"

\* Stdin::read returns read_len > 0: BufReader::read has handed out the first
\* bytes of its buffer buf, at most buf.len() of the caller
StdinReturn(buf) ==
    LET k == Min(stdin_n, Len(buf)) IN
    /\ consumed' = consumed \o SubSeq(buf, 1, k)
    /\ stdin_buf' = SubSeq(buf, k + 1, Len(buf))
    /\ stdin_pc' = "idle"

\* A thread calls Stdin::read with a non-empty buffer
Stdin_read ==
    /\ stdin_pc = "idle"
    /\ \E n \in 1..MaxReadLen : stdin_n' = n
    /\ stdin_pc' = "read"
    /\ stdin_first' = TRUE
    /\ stdin_yielded' = FALSE
    /\ UNCHANGED <<stdin_call, stdin_buf, consumed>>
    /\ UNCHANGED <<bridgeVars, irqVars, uartVars, lockVars>>

\* self.inner.lock().read(buf): BufReader::read hands out buffered bytes, or
\* fills its empty buffer by StdinRaw::read
BufReader_read ==
    /\ stdin_pc = "read"
    /\ IF stdin_buf # <<>>
       THEN /\ StdinReturn(stdin_buf)
            /\ UNCHANGED stdin_call
       ELSE /\ stdin_pc' = "fill"
            /\ stdin_call' = 0
            /\ UNCHANGED <<stdin_buf, consumed>>
    /\ UNCHANGED <<stdin_n, stdin_first, stdin_yielded>>
    /\ UNCHANGED <<bridgeVars, irqVars, uartVars, lockVars>>

\* One getchar of read_bytes within StdinRaw::read.  Some(c): the byte is
\* stored, converted.  None after bytes: read_bytes returns them and
\* StdinRaw::read calls it again.  None at once: StdinRaw::read returns what it
\* has read, and Stdin::read returns it or goes on after an empty attempt
ReadBytesGetchar ==
    /\ stdin_pc = "fill"
    /\ IF RECEIVE_BUFFER # <<>>
       THEN /\ RECEIVE_BUFFER' = Tail(RECEIVE_BUFFER)
            /\ stdin_buf' = Append(stdin_buf, CrToLf(Head(RECEIVE_BUFFER)))
            /\ stdin_call' = stdin_call + 1
            /\ UNCHANGED <<stdin_pc, stdin_first, consumed>>
       ELSE /\ UNCHANGED RECEIVE_BUFFER
            /\ IF stdin_call > 0
               THEN /\ stdin_call' = 0
                    /\ UNCHANGED <<stdin_pc, stdin_first, stdin_buf, consumed>>
               ELSE /\ UNCHANGED stdin_call
                    /\ IF stdin_buf # <<>>
                       THEN /\ StdinReturn(stdin_buf)
                            /\ UNCHANGED stdin_first
                       ELSE /\ stdin_pc' = AfterEmptyAttempt(stdin_first)
                            /\ stdin_first' = FALSE
                            /\ UNCHANGED <<stdin_buf, consumed>>
    /\ UNCHANGED <<stdin_n, stdin_yielded>>
    /\ UNCHANGED <<UART_RECEIVE_QUEUE, WAKER, NEXT_ID, task_ids, tasks, task_queue,
                   pc_exec, pc_exec2, cur_task, cur_byte, isr_pc, nPushed,
                   droppedFull, droppedUninit, obtained, cycle>>
    /\ UNCHANGED <<irqVars, uartVars>>

\* StdinRaw::read, one getchar at a time; RECEIVE_BUFFER.lock() of the getchar
\* is taken and released within the step
StdinRaw_read ==
    /\ ReadBytesGetchar
    /\ UNCHANGED lockVars

\* crate::thread::yield_now(): the thread runs again later and retries
yield_now ==
    /\ stdin_pc = "yield"
    /\ stdin_pc' = "read"
    /\ stdin_yielded' = TRUE
    /\ UNCHANGED <<stdin_n, stdin_first, stdin_call, stdin_buf, consumed>>
    /\ UNCHANGED <<bridgeVars, irqVars, uartVars, lockVars>>

\* The steps of a Stdin::read call in progress
StdinStep ==
    \/ BufReader_read
    \/ StdinRaw_read
    \/ yield_now

NextConsole ==
    \/ ExecutorStep
    \/ notify_push(MaxPush)
    \/ notify_wake
    \/ Stdin_read
    \/ StdinStep

\* The executor thread and the reading thread are scheduled again and again,
\* and the ISR finishes
SpecConsole ==
    /\ Init
    /\ [][NextConsole]_vars
    /\ WF_vars(ExecutorStep)
    /\ WF_vars(notify_wake)
    /\ WF_vars(StdinStep)

---------------------------------------------------------------------------
(* The IRQ layer: handler table, IO-APIC enable, dispatch *)

\* Mutant: a set_enable that passes every vector on to the IO-APIC.
SetEnableEveryVector(lines, vector, enabled) ==
    IF enabled THEN lines \cup {vector % ByteModulus}
               ELSE lines \ {vector % ByteModulus}

\* set_enable: only vectors below APIC_TIMER_VECTOR reach the IO-APIC
\* (enable_irq / disable_irq of vector as u8); the others are left alone.
SetEnable(lines, vector, enabled) ==
    IF vector < APIC_TIMER_VECTOR
    THEN IF enabled THEN lines \cup {vector % ByteModulus}
                    ELSE lines \ {vector % ByteModulus}
    ELSE lines

set_enable(vector, enabled) ==
    /\ IO_APIC' = SetEnable(IO_APIC, vector, enabled)
    /\ irq_last' = IrqOp("set_enable", vector, "", enabled, FALSE, <<>>)
    /\ UNCHANGED IRQ_HANDLER_TABLE
    /\ UNCHANGED <<bridgeVars, envVars>>

\* Mutant: a registration that replaces a handler already installed.
RegisterOverwrites(table, irq_num) == irq_num < MAX_IRQ_COUNT

\* Mutant: a registration without the range check.
RegisterUnchecked(table, irq_num) == irq_num \notin DOMAIN table

\* irq_num < MAX_IRQ_COUNT && IRQ_HANDLER_TABLE.register_handler(irq_num, handler):
\* the table stores the handler only into an empty slot.
RegisterSucceeds(table, irq_num) ==
    irq_num < MAX_IRQ_COUNT /\ irq_num \notin DOMAIN table

\* Mutant: a successful registration that does not store the handler.
HandlerNotStored(table, irq_num, handler) == table

\* HandlerTable::register_handler on success: the slot holds the handler
HandlerStored(table, irq_num, handler) ==
    [v \in DOMAIN table \cup {irq_num} |->
        IF v = irq_num THEN handler ELSE table[v]]

\* Mutant: a registration that enables the line whether or not it succeeded.
register_handler_enables_always(vector, handler) ==
    /\ IF RegisterSucceeds(IRQ_HANDLER_TABLE, vector)
       THEN /\ IRQ_HANDLER_TABLE' = HandlerStored(IRQ_HANDLER_TABLE, vector, handler)
            /\ irq_last' = IrqOp("register", vector, handler, FALSE, TRUE,
                                 <<"set_enable">>)
       ELSE /\ irq_last' = IrqOp("register", vector, handler, FALSE, FALSE,
                                 <<"warn">>)
            /\ UNCHANGED IRQ_HANDLER_TABLE
    /\ IO_APIC' = SetEnable(IO_APIC, vector, TRUE)
    /\ UNCHANGED <<bridgeVars, envVars>>

\* register_handler (apic.rs) -> register_handler_common (irq.rs)
register_handler(vector, handler) ==
    /\ IF RegisterSucceeds(IRQ_HANDLER_TABLE, vector)
       THEN /\ IRQ_HANDLER_TABLE' = HandlerStored(IRQ_HANDLER_TABLE, vector, handler)
            /\ IO_APIC' = SetEnable(IO_APIC, vector, TRUE)
            /\ irq_last' = IrqOp("register", vector, handler, FALSE, TRUE,
                                 <<"set_enable">>)
       ELSE /\ irq_last' = IrqOp("register", vector, handler, FALSE, FALSE,
                                 <<"warn">>)
            /\ UNCHANGED <<IRQ_HANDLER_TABLE, IO_APIC>>
    /\ UNCHANGED <<bridgeVars, envVars>>

\* Mutant: a table that calls the handler of the slot twice.
HandlerTableHandleTwice(table, irq_num) ==
    IF irq_num < MAX_IRQ_COUNT /\ irq_num \in DOMAIN table
    THEN <<table[irq_num], table[irq_num]>>
    ELSE <<>>

\* HandlerTable::handle: call the handler of the slot, if the slot holds one
HandlerTableHandle(table, irq_num) ==
    IF irq_num < MAX_IRQ_COUNT /\ irq_num \in DOMAIN table
    THEN <<table[irq_num]>>
    ELSE <<>>

\* Mutant: a dispatch that signals end_of_interrupt only for a handled IRQ.
dispatch_irq_eoi_if_handled(vector) ==
    /\ LET called == HandlerTableHandle(IRQ_HANDLER_TABLE, vector) IN
        irq_last' = IrqOp("dispatch", vector, "", FALSE, called # <<>>,
                          IF called = <<>> THEN <<"warn">>
                          ELSE called \o <<"end_of_interrupt">>)
    /\ UNCHANGED <<IRQ_HANDLER_TABLE, IO_APIC>>
    /\ UNCHANGED <<bridgeVars, envVars>>

\* dispatch_irq (apic.rs): dispatch_irq_common(vector), then end_of_interrupt()
dispatch_irq(vector) ==
    /\ LET called == HandlerTableHandle(IRQ_HANDLER_TABLE, vector) IN
        irq_last' = IrqOp("dispatch", vector, "", FALSE, called # <<>>,
                          (IF called = <<>> THEN <<"warn">> ELSE called)
                              \o <<"end_of_interrupt">>)
    /\ UNCHANGED <<IRQ_HANDLER_TABLE, IO_APIC>>
    /\ UNCHANGED <<bridgeVars, envVars>>

\* The IRQ layer under every sequence of its operations
NextIrq ==
    \/ \E v \in IrqVectors, h \in Handlers : register_handler(v, h)
    \/ \E v \in IrqVectors, e \in BOOLEAN : set_enable(v, e)
    \/ \E v \in IrqVectors : dispatch_irq(v)

SpecIrq == Init /\ [][NextIrq]_vars

---------------------------------------------------------------------------
(* Properties of the bridge, the stream adapter and the executor *)

\* The push numbers in S, ascending
Ascending(S) ==
    LET InS(k) == k \in S IN SelectSeq([k \in 1..nPushed |-> k], InS)

BytesOf(idx) == [i \in 1..Len(idx) |-> ByteAt(idx[i])]

\* The bytes passed to push while the queue existed, in push order
OfferedIdx == Ascending((1..nPushed) \ droppedUninit)

\* The bytes push has enqueued, in push order
EnqueuedBytes == BytesOf(Ascending((1..nPushed) \ (droppedUninit \cup droppedFull)))

\* A task is Parked: not in the run-queue and not being polled
Parked(t) == t \notin Range(task_queue) /\ t \notin cur_task

\* C1 (no missed wake): under every interleaving of the pushes with the polls
\* of the stream adapter, every byte that push has enqueued is eventually
\* returned by a poll: no behaviour leaves a byte in the queue for ever.
C1_NoMissedWake ==
    \A k \in 1..MaxPush :
        (ByteAt(k) \in Range(UART_RECEIVE_QUEUE.items)) ~> (ByteAt(k) \in Range(obtained))

\* C1 witness: a push has completed (byte enqueued, wake fired) strictly
\* between the poller's first, empty pop and its waker registration.
C1_Witness ==
    /\ pc_exec = "register"
    /\ isr_pc = "idle"
    /\ UART_RECEIVE_QUEUE.items # <<>>

\* C2 (FIFO order): the bytes the pops have returned so far, followed by the
\* bytes still in the queue, are exactly the enqueued bytes in push order; so N
\* pops after N pushes return the N bytes in push order and leave the queue
\* empty, where a pop returns None.
C2_FifoOrder == obtained \o UART_RECEIVE_QUEUE.items = EnqueuedBytes

\* C2 witness: three bytes were pushed, a poll cycle that started with the three
\* in the queue has popped them, and one more pop found the queue empty.
C2_Witness ==
    /\ nPushed = 3
    /\ cycle.st = "polling" /\ cycle.popped = 0 /\ Len(cycle.expect) = 3
    /\ obtained = <<ByteAt(1), ByteAt(2), ByteAt(3)>>
    /\ pc_exec = "register"

\* C3 (bounded loss, not corruption): the queue never holds more than
\* QueueCapacity bytes, and as long as no pop has happened it holds the oldest
\* QueueCapacity bytes offered to it, in push order, every later push having
\* been dropped with the "full" diagnostic.
C3_BoundedLoss ==
    /\ Len(UART_RECEIVE_QUEUE.items) <= QueueCapacity
    /\ (UART_RECEIVE_QUEUE.init /\ obtained = <<>>) =>
          LET kept == IF Len(OfferedIdx) <= QueueCapacity
                      THEN OfferedIdx
                      ELSE SubSeq(OfferedIdx, 1, QueueCapacity)
          IN /\ UART_RECEIVE_QUEUE.items = BytesOf(kept)
             /\ droppedFull = Range(OfferedIdx) \ Range(kept)

\* C3 witness: QueueCapacity + 2 bytes were offered with no pop in between.
C3_Witness ==
    /\ obtained = <<>>
    /\ Len(UART_RECEIVE_QUEUE.items) = QueueCapacity
    /\ Cardinality(droppedFull) >= 2

\* C4 (at-most-one scheduling): no task id occurs twice in the run-queue.
C4_AtMostOnce ==
    \A i, j \in 1..Len(task_queue) : task_queue[i] = task_queue[j] => i = j

\* C4 witness: the task's waker has fired while the task is being polled (its id
\* is back in the run-queue) and the task has registered its waker again, with
\* the next wake of the interrupt handler about to fire.
C4_Witness ==
    /\ cur_task # {} /\ cur_task \subseteq Range(task_queue)
    /\ WAKER = cur_task
    /\ isr_pc = "wake"

\* C5 (idempotent wake): a step that fires the waker of a task whose id is
\* already in the run-queue leaves the run-queue unchanged, and the step that
\* takes a task out of the run-queue to poll it leaves no occurrence of its id
\* behind: one Runnable period, one poll.
C5_IdempotentWake ==
    [][ /\ (isr_pc = "wake" /\ isr_pc' = "idle" /\ WAKER # {}
            /\ WAKER \subseteq Range(task_queue)) => task_queue' = task_queue
        /\ (pc_exec = "run" /\ cur_task' # {}) =>
               cur_task' \cap Range(task_queue') = {} ]_vars

\* C5 witness: the waker of a parked-then-woken task (Runnable, not being
\* polled) is registered and about to be fired once more.
C5_Witness ==
    /\ isr_pc = "wake"
    /\ WAKER # {} /\ WAKER \subseteq Range(task_queue)
    /\ pc_exec = "run"

\* C6 (end-to-end delivery): when a poll cycle of the drain task started with
\* the bridge initialized, n bytes in the queue and room for them in the line
\* buffer, and no push has happened since, then once the poll has returned the
\* line buffer is its old contents followed by those n bytes in push order, the
\* queue is empty and the drain task is Parked.
C6_EndToEnd ==
    cycle.st = "done" =>
        /\ RECEIVE_BUFFER = cycle.expect
        /\ UART_RECEIVE_QUEUE.items = <<>>
        /\ pc_exec = "run"
        /\ \A t \in DOMAIN tasks : Parked(t)

\* C6 witness: three bytes pushed, then one poll cycle, starting from an empty
\* line buffer.
C6_Witness ==
    /\ cycle.st = "done" /\ cycle.base = 0
    /\ nPushed = 3
    /\ RECEIVE_BUFFER = <<ByteAt(1), ByteAt(2), ByteAt(3)>>

\* C7 (end-to-end overflow): when more than QueueCapacity bytes were offered
\* before the first pop, and the drain task is then polled once with no push in
\* between, exactly QueueCapacity bytes reach the line buffer and every offered
\* byte beyond them has its "full" diagnostic.
C7_EndToEndOverflow ==
    (cycle.st = "done" /\ cycle.base = 0 /\ cycle.popped = 0
        /\ Len(OfferedIdx) > QueueCapacity) =>
        /\ Len(RECEIVE_BUFFER) = QueueCapacity
        /\ Len(obtained) = QueueCapacity
        /\ Cardinality(droppedFull) = Len(OfferedIdx) - QueueCapacity

\* C7 witness: QueueCapacity + 2 bytes offered, then one poll cycle.
C7_Witness ==
    /\ cycle.st = "done" /\ cycle.base = 0 /\ cycle.popped = 0
    /\ Len(OfferedIdx) = QueueCapacity + 2
    /\ Len(RECEIVE_BUFFER) = QueueCapacity

---------------------------------------------------------------------------
(* Properties of the IRQ layer *)

\* The step is a call of register_handler / dispatch_irq
IsRegisterStep == irq_last'.op = "register"
IsDispatchStep == irq_last'.op = "dispatch"

\* C8 (registration rejection): a register call for an IRQ number that already
\* has a handler returns false, whatever handler it passes; no step changes or
\* removes an installed handler; and a dispatch of that number calls the
\* installed handler and nothing else before end_of_interrupt.
C8_RegistrationRejection ==
    [][ /\ \A v \in DOMAIN IRQ_HANDLER_TABLE :
              /\ v \in DOMAIN IRQ_HANDLER_TABLE'
              /\ IRQ_HANDLER_TABLE'[v] = IRQ_HANDLER_TABLE[v]
        /\ (IsRegisterStep /\ irq_last'.vector \in DOMAIN IRQ_HANDLER_TABLE) =>
              irq_last'.ret = FALSE
        /\ (IsDispatchStep /\ irq_last'.vector \in DOMAIN IRQ_HANDLER_TABLE) =>
              irq_last'.events =
                  <<IRQ_HANDLER_TABLE[irq_last'.vector], "end_of_interrupt">> ]_vars

\* C8 witness: a second registration, with a different handler, was rejected
\* and the first handler is still installed.
C8_Witness ==
    /\ irq_last.op = "register" /\ irq_last.ret = FALSE
    /\ irq_last.vector \in DOMAIN IRQ_HANDLER_TABLE
    /\ IRQ_HANDLER_TABLE[irq_last.vector] # irq_last.handler

C10_EnabledImpliesHandler == \A v \in IO_APIC : v \in DOMAIN IRQ_HANDLER_TABLE

\* C10 as amended: a line without a handler becomes enabled only by a direct
\* call set_enable(id, true); register_handler enables a line only together
\* with storing its handler, and no step removes a handler.
C10_EnabledByRegisterHasHandler ==
    [][ /\ \A v \in IO_APIC' \ IO_APIC :
              v \notin DOMAIN IRQ_HANDLER_TABLE' =>
                  /\ irq_last'.op = "set_enable"
                  /\ irq_last'.vector = v
                  /\ irq_last'.enabled
        /\ DOMAIN IRQ_HANDLER_TABLE \subseteq DOMAIN IRQ_HANDLER_TABLE' ]_vars

\* C10 witness: register_handler has enabled a line, and the line has the
\* handler of that call.
C10_Witness ==
    /\ irq_last.op = "register" /\ irq_last.ret
    /\ irq_last.vector \in IO_APIC
    /\ irq_last.vector \in DOMAIN IRQ_HANDLER_TABLE
    /\ irq_last.events = <<"set_enable">>


\* C11 as stated: after a failed registration (the IRQ number is out of range
\* or already has a handler) the line of that IRQ number is disabled.
C11_FailedRegisterLineDisabled ==
    (irq_last.op = "register" /\ ~irq_last.ret) => irq_last.vector \notin IO_APIC

\* C11 as amended: a failed registration completes with the warning only, is
\* reported as false and changes no line: the line of that IRQ number is
\* disabled afterwards exactly when it was disabled before (always so for an
\* out-of-range number), and the line the first, successful registration of a
\* taken number has enabled stays enabled.
C11_FailedRegisterKeepsLines ==
    [][ (IsRegisterStep /\ ~RegisterSucceeds(IRQ_HANDLER_TABLE, irq_last'.vector)) =>
          /\ irq_last'.ret = FALSE
          /\ irq_last'.events = <<"warn">>
          /\ IO_APIC' = IO_APIC
          /\ irq_last'.vector >= MAX_IRQ_COUNT => irq_last'.vector \notin IO_APIC' ]_vars

\* C11 witness: a registration for a taken IRQ number has failed, and the line
\* of that number is enabled.
C11_Witness ==
    /\ irq_last.op = "register" /\ ~irq_last.ret
    /\ irq_last.vector \in DOMAIN IRQ_HANDLER_TABLE
    /\ irq_last.vector \in IO_APIC

\* The handlers a dispatch has invoked, in order
HandlersInvoked(events) == SelectSeq(events, LAMBDA e : e \in Handlers)

\* The number of end_of_interrupt signals among the events
EoiCount(events) == Len(SelectSeq(events, LAMBDA e : e = "end_of_interrupt"))

\* C12 (dispatch): a dispatch of an IRQ number that has a handler invokes that
\* handler exactly once, before the dispatch returns; a dispatch of a number
\* that has none, or that is out of range, invokes no handler and completes
\* with the warning; in both cases the table is unchanged.
C12_DispatchInvokesOnce ==
    [][ IsDispatchStep =>
          LET v == irq_last'.vector IN
          /\ HandlersInvoked(irq_last'.events) =
                 IF v < MAX_IRQ_COUNT /\ v \in DOMAIN IRQ_HANDLER_TABLE
                 THEN <<IRQ_HANDLER_TABLE[v]>> ELSE <<>>
          /\ irq_last'.ret = (HandlersInvoked(irq_last'.events) # <<>>)
          /\ IRQ_HANDLER_TABLE' = IRQ_HANDLER_TABLE
          /\ IO_APIC' = IO_APIC ]_vars

\* C12 witness: a dispatch has invoked the handler registered for its number,
\* while other numbers have no handler.
C12_Witness ==
    /\ irq_last.op = "dispatch" /\ irq_last.ret
    /\ HandlersInvoked(irq_last.events) = <<IRQ_HANDLER_TABLE[irq_last.vector]>>
    /\ DOMAIN IRQ_HANDLER_TABLE = {irq_last.vector}

\* C13 (end of interrupt): every dispatch signals end_of_interrupt exactly
\* once, as its last event, after the handler (if any) has returned; this
\* holds as well for a number without a handler.
C13_EndOfInterruptOnce ==
    [][ IsDispatchStep =>
          LET ev == irq_last'.events IN
          /\ EoiCount(ev) = 1
          /\ ev[Len(ev)] = "end_of_interrupt"
          /\ \A i \in 1..Len(ev) : ev[i] \in Handlers => i < Len(ev) ]_vars

\* C13 witness: a dispatch of a number without a handler has signalled
\* end_of_interrupt after the warning.
C13_Witness ==
    /\ irq_last.op = "dispatch" /\ ~irq_last.ret
    /\ irq_last.events = <<"warn", "end_of_interrupt">>

\* C14 (set_enable): a call with a vector at or above APIC_TIMER_VECTOR changes
\* no line, whatever the value of enabled; a call with a vector below it
\* enables or disables exactly the line of that vector.
C14_SetEnableVectorRange ==
    [][ irq_last'.op = "set_enable" =>
          LET v == irq_last'.vector IN
          /\ v >= APIC_TIMER_VECTOR => IO_APIC' = IO_APIC
          /\ v < APIC_TIMER_VECTOR =>
                IO_APIC' = IF irq_last'.enabled THEN IO_APIC \cup {v}
                                                ELSE IO_APIC \ {v}
          /\ IRQ_HANDLER_TABLE' = IRQ_HANDLER_TABLE ]_vars

\* C14 witness: set_enable(v, true) was called for a vector of the local APIC
\* range and no line of that vector is enabled.
C14_Witness ==
    /\ irq_last.op = "set_enable" /\ irq_last.enabled
    /\ irq_last.vector >= APIC_TIMER_VECTOR
    /\ irq_last.vector \notin IO_APIC
    /\ (irq_last.vector % ByteModulus) \notin IO_APIC

---------------------------------------------------------------------------
(* Properties of the stream adapter's waker and of the push *)

\* C15 as stated: whenever poll_next has returned a byte, from its first pop
\* or from the pop after the registration, no waker is registered.
C15_NoWakerAfterReady == pc_exec = "append" => WAKER = {}

\* The step is a call of notify_async_uart_irq_handler up to its push
IsPushStep == nPushed' = nPushed + 1

\* The step is the WAKER.wake() of notify_async_uart_irq_handler
IsWakeStep == isr_pc = "wake" /\ isr_pc' # "wake"

\* C16 (push and wake): a push enqueues its byte exactly when the queue exists
\* and is not full, and then goes on to one WAKER.wake(), which happens before
\* the next push; that wake empties the waker slot, re-queues the registered
\* task once, and does nothing when no waker is registered.  A push that drops
\* its byte fires no waker and leaves the queue and the waker slot unchanged.
\* No other step of the interrupt context touches the run-queue.
C16_WakeIffEnqueued ==
    [][ /\ IsPushStep =>
              LET enq == /\ UART_RECEIVE_QUEUE.init
                         /\ Len(UART_RECEIVE_QUEUE.items) < QueueCapacity
              IN /\ isr_pc = "idle"
                 /\ enq => /\ UART_RECEIVE_QUEUE'.items =
                                  Append(UART_RECEIVE_QUEUE.items, ByteAt(nPushed'))
                           /\ isr_pc' = "wake"
                 /\ ~enq => /\ UART_RECEIVE_QUEUE' = UART_RECEIVE_QUEUE
                            /\ isr_pc' = "idle"
                 /\ WAKER' = WAKER
                 /\ task_queue' = task_queue
        /\ IsWakeStep =>
              /\ isr_pc' = "idle"
              /\ WAKER' = {}
              /\ WAKER = {} => task_queue' = task_queue
              /\ WAKER # {} =>
                    /\ WAKER \subseteq Range(task_queue')
                    /\ \/ task_queue' = task_queue
                       \/ \E t \in WAKER : task_queue' = Append(task_queue, t)
              /\ UART_RECEIVE_QUEUE' = UART_RECEIVE_QUEUE
        /\ (isr_pc' = "wake" /\ isr_pc # "wake") => IsPushStep ]_vars

\* C16 witness: a push has enqueued its byte after an earlier push was dropped,
\* and is about to fire the waker of the parked drain task.
C16_Witness ==
    /\ isr_pc = "wake"
    /\ UART_RECEIVE_QUEUE.items # <<>>
    /\ droppedUninit # {}
    /\ WAKER # {} /\ \A t \in WAKER : Parked(t)

\* C18 (faults in interrupt context): a push that finds the queue not yet
\* created or full drops its byte with the diagnostic of that case and returns
\* to the interrupt handler, which can go on with the next byte; the queue and
\* the executor thread are left as they were, and the interrupt context is
\* never in another position than idle or about to wake.
C18_IsrFaultsAbsorbed ==
    [][ /\ (IsPushStep /\ ~UART_RECEIVE_QUEUE.init) =>
              /\ isr_pc' = "idle"
              /\ droppedUninit' = droppedUninit \cup {nPushed'}
              /\ droppedFull' = droppedFull
              /\ UART_RECEIVE_QUEUE' = UART_RECEIVE_QUEUE
              /\ pc_exec' = pc_exec
        /\ (IsPushStep /\ UART_RECEIVE_QUEUE.init
                /\ Len(UART_RECEIVE_QUEUE.items) >= QueueCapacity) =>
              /\ isr_pc' = "idle"
              /\ droppedFull' = droppedFull \cup {nPushed'}
              /\ droppedUninit' = droppedUninit
              /\ UART_RECEIVE_QUEUE' = UART_RECEIVE_QUEUE
              /\ pc_exec' = pc_exec
        /\ isr_pc' \in {"idle", "wake"} ]_vars

\* C18 witness: a byte was dropped before the queue existed, another one while
\* the queue was full; the interrupt context is idle again and the drain task
\* has gone on to take a byte out of the full queue.
C18_Witness ==
    /\ droppedUninit # {}
    /\ droppedFull # {}
    /\ isr_pc = "idle"
    /\ pc_exec = "append"
    /\ Len(UART_RECEIVE_QUEUE.items) = QueueCapacity - 1

\* C20 (the drain task never completes): poll_next hands the drain task a byte
\* or suspends, never the end of the stream; a poll of the drain task ends only
\* by suspending, with the task still stored; and no task is ever Completed or
\* removed.
C20_DrainNeverCompletes ==
    [][ /\ \A t \in DOMAIN tasks' : tasks'[t] # "completed"
        /\ DOMAIN tasks \subseteq DOMAIN tasks'
        /\ pc_exec' = "append" => cur_byte' # <<>>
        /\ pc_exec' # "ready"
        /\ (cur_task # {} /\ cur_task' = {}) =>
              /\ pc_exec = "pending" /\ pc_exec' = "run"
              /\ tasks' = tasks ]_vars

\* C20 witness: the drain task has been polled several times, has moved every
\* byte pushed so far into the line buffer, and is parked with its waker
\* registered.
C20_Witness ==
    /\ pc_exec = "run" /\ task_queue = <<>> /\ cur_task = {}
    /\ DOMAIN tasks # {} /\ WAKER = DOMAIN tasks
    /\ \A t \in DOMAIN tasks : tasks[t] = "await_next"
    /\ nPushed >= 3 /\ Len(RECEIVE_BUFFER) = nPushed

\* C17 (the queue is created once): the step that creates the queue is the
\* first UartStream::new and leaves it empty, with room for QueueCapacity
\* bytes; once created the queue stays created and its contents change only by
\* a push appending one byte or a pop taking the oldest one; a later
\* UartStream::new leaves the queue and its bytes as they are and panics.
C17_QueueCreatedOnce ==
    [][ /\ (~UART_RECEIVE_QUEUE.init /\ UART_RECEIVE_QUEUE'.init) =>
              /\ pc_exec = "new" /\ pc_exec' = "pop1"
              /\ UART_RECEIVE_QUEUE'.items = <<>>
        /\ UART_RECEIVE_QUEUE.init =>
              /\ UART_RECEIVE_QUEUE'.init
              /\ Len(UART_RECEIVE_QUEUE'.items) <= QueueCapacity
              /\ \/ UART_RECEIVE_QUEUE'.items = UART_RECEIVE_QUEUE.items
                 \/ /\ IsPushStep
                    /\ UART_RECEIVE_QUEUE'.items =
                           Append(UART_RECEIVE_QUEUE.items, ByteAt(nPushed'))
                 \/ /\ UART_RECEIVE_QUEUE.items # <<>>
                    /\ UART_RECEIVE_QUEUE'.items = Tail(UART_RECEIVE_QUEUE.items)
                    /\ obtained' = Append(obtained, Head(UART_RECEIVE_QUEUE.items))
        /\ (pc_exec2 = "new" /\ pc_exec2' # "new") =>
              /\ pc_exec2' = "panicked"
              /\ UART_RECEIVE_QUEUE' = UART_RECEIVE_QUEUE ]_vars

\* C17 witness: a second UartStream::new has panicked while the queue held
\* every byte pushed so far.
C17_Witness ==
    /\ pc_exec2 = "panicked"
    /\ nPushed >= 2
    /\ Len(UART_RECEIVE_QUEUE.items) = nPushed

\* C19 (the line buffer is bounded): the line buffer never holds more than
\* LineBufferLimit bytes; only the body of the drain task's loop changes it:
\* it appends the byte taken from the bridge when the buffer holds fewer than
\* LineBufferLimit bytes, and otherwise drops that byte and leaves the buffer
\* as it is.
C19_LineBufferBounded ==
    [][ /\ Len(RECEIVE_BUFFER') <= LineBufferLimit
        /\ (pc_exec = "append" /\ pc_exec' # "append") =>
              /\ Len(RECEIVE_BUFFER) < LineBufferLimit =>
                    RECEIVE_BUFFER' = Append(RECEIVE_BUFFER, cur_byte[1])
              /\ Len(RECEIVE_BUFFER) >= LineBufferLimit =>
                    RECEIVE_BUFFER' = RECEIVE_BUFFER
              /\ cur_byte' = <<>>
        /\ ~(pc_exec = "append" /\ pc_exec' # "append") =>
              RECEIVE_BUFFER' = RECEIVE_BUFFER ]_vars

\* C19 witness: the line buffer is full and the drain task has taken one more
\* byte from the bridge and dropped it.
C19_Witness ==
    /\ Len(RECEIVE_BUFFER) = LineBufferLimit
    /\ Len(obtained) = LineBufferLimit + 1
    /\ pc_exec = "pop1"

---------------------------------------------------------------------------
(* Properties of the executor's scheduling *)

\* C21 (a Parked task waits for its waker): a task id enters the run-queue
\* only by spawn or by a wake that finds that task's waker registered; and a
\* task is taken up for polling only out of the run-queue, so a Parked task is
\* neither polled nor re-queued until its registered waker is fired.
C21_ParkedUntilWoken ==
    [][ /\ \A t \in Range(task_queue') \ Range(task_queue) :
              \/ pc_exec = "boot" /\ pc_exec' = "run" /\ t \notin DOMAIN tasks
              \/ IsWakeStep /\ t \in WAKER
        /\ Len(task_queue') > Len(task_queue) =>
              Range(task_queue') # Range(task_queue)
        /\ (cur_task = {} /\ cur_task' # {}) =>
              /\ cur_task' \subseteq Range(task_queue)
              /\ pc_exec = "run" ]_vars

\* C21 witness: the drain task was Parked with its waker registered, a push
\* has fired that waker, and the task is back in the run-queue, not yet polled.
C21_Witness ==
    /\ pc_exec = "run" /\ cur_task = {}
    /\ task_queue # <<>>
    /\ \A t \in Range(task_queue) : t \in DOMAIN tasks /\ tasks[t] = "await_next"
    /\ WAKER = {} /\ isr_pc = "idle"
    /\ Len(UART_RECEIVE_QUEUE.items) = 1 /\ obtained = <<>>

\* C22 (FIFO polling): the run loop takes up the task at the head of the
\* run-queue, ids enter the run-queue at its back only, at most one task is
\* being polled, and while a task is being polled no other task is taken up:
\* a task whose id entered the run-queue earlier is polled earlier.
C22_FifoPolling ==
    [][ /\ Cardinality(cur_task') <= 1
        /\ (cur_task = {} /\ cur_task' # {}) =>
              /\ task_queue # <<>>
              /\ cur_task' = {Head(task_queue)}
              /\ task_queue' = Tail(task_queue)
        /\ cur_task # {} => cur_task' \in {cur_task, {}}
        /\ task_queue' # task_queue =>
              \/ task_queue # <<>> /\ task_queue' = Tail(task_queue)
              \/ /\ Len(task_queue') > Len(task_queue)
                 /\ SubSeq(task_queue', 1, Len(task_queue)) = task_queue ]_vars

\* C22 witness: example_task, spawned first, is being polled while the drain
\* task, spawned second, waits in the run-queue.
C22_Witness ==
    /\ cur_task = {0} /\ tasks[0] = "example"
    /\ task_queue = <<1>> /\ tasks[1] = "start"

C24_TaskIdsUnique ==
    [][ /\ NEXT_ID' >= NEXT_ID
        /\ Len(task_ids') >= Len(task_ids)
        /\ SubSeq(task_ids', 1, Len(task_ids)) = task_ids
        /\ \A i, j \in 1..Len(task_ids') : i < j => task_ids'[i] < task_ids'[j]
        /\ \A i \in (Len(task_ids) + 1)..Len(task_ids') :
              /\ task_ids'[i] >= NEXT_ID /\ task_ids'[i] < NEXT_ID'
              /\ task_ids'[i] \notin
                     DOMAIN tasks \cup Range(task_queue) \cup WAKER \cup cur_task
        /\ DOMAIN tasks' \subseteq Range(task_ids') ]_vars

\* C24 witness: a second thread has created its task while the first thread
\* was polling the first task; the two ids are 0 and 1.
C24_Witness ==
    /\ task_ids = <<0, 1>>
    /\ pc_exec2 = "new"
    /\ cur_task = {0}
    /\ NEXT_ID = 2

---------------------------------------------------------------------------
(* The lock of the line buffer.  RECEIVE_BUFFER is a SpinNoIrq: lock() disables
   the local interrupts and the preemption of its core, then spins until the
   lock is free; dropping the guard releases the lock and restores both.  The
   drain task runs on core 0 in the executor thread; the reading thread runs
   on either core; the UART interrupt is delivered to either core, when that
   core has its interrupts enabled, and the interrupted thread does not run
   until the ISR has returned *)

Cores == 0..1

Core(ctx) == IF ctx = "drain" THEN 0 ELSE reader_core

\* The contexts that have a guard of the lock, or spin for one: their cores
\* have interrupts and preemption disabled
IrqsDisabledBy(lp) == {ctx \in DOMAIN lp : lp[ctx] # "out"}

IrqsOffCores == {Core(ctx) : ctx \in IrqsDisabledBy(lock_pc)}

\* The context is on the processor or can be put on it: no ISR runs on its
\* core, and no other thread of its core has preemption disabled
CanRun(ctx) ==
    /\ Core(ctx) \notin isr_on
    /\ \A o \in IrqsDisabledBy(lock_pc) \ {ctx} : Core(o) # Core(ctx)

\* The scheduler moves the reading thread to the other core
reader_migrates ==
    /\ stdin_pc = "idle"
    /\ lock_pc["reader"] = "out"
    /\ reader_core' = 1 - reader_core
    /\ UNCHANGED <<isr_on, isr_base, lock_pc>>
    /\ UNCHANGED <<bridgeVars, irqVars, consoleVars, uartVars>>

\* The UART interrupt is taken on a core whose interrupts are enabled
isr_enter ==
    /\ isr_on = {}
    /\ isr_pc = "idle"
    /\ nPushed < MaxLockPush
    /\ ~UART_RECEIVE_QUEUE.init => nPushed < MaxEarlyPush
    /\ \E c \in Cores \ IrqsOffCores : isr_on' = {c}
    /\ isr_base' = nPushed
    /\ UNCHANGED <<reader_core, lock_pc>>
    /\ UNCHANGED <<bridgeVars, irqVars, consoleVars, uartVars>>

\* The ISR has passed its byte on and returns to the interrupted context
isr_return ==
    /\ isr_on # {}
    /\ isr_pc = "idle"
    /\ nPushed > isr_base
    /\ isr_on' = {}
    /\ UNCHANGED <<reader_core, isr_base, lock_pc>>
    /\ UNCHANGED <<bridgeVars, irqVars, consoleVars, uartVars>>

\* The steps of the ISR between its entry and its return
IsrRun ==
    \/ isr_on # {} /\ nPushed = isr_base /\ notify_push(MaxLockPush)
    \/ isr_on # {} /\ notify_wake
    \/ isr_return

\* let mut buffer = RECEIVE_BUFFER.lock(): interrupts and preemption off
drain_lock_begin ==
    /\ CanRun("drain")
    /\ pc_exec = "append" /\ cur_byte # <<>>
    /\ lock_pc["drain"] = "out"
    /\ lock_pc' = [lock_pc EXCEPT !["drain"] = "spin"]
    /\ UNCHANGED <<reader_core, isr_on, isr_base>>
    /\ UNCHANGED <<bridgeVars, irqVars, consoleVars, uartVars>>

\* RECEIVE_BUFFER.lock(): the spin ends when the lock is free
drain_lock_acquire ==
    /\ CanRun("drain")
    /\ lock_pc["drain"] = "spin"
    /\ lock_pc["reader"] # "held"
    /\ lock_pc' = [lock_pc EXCEPT !["drain"] = "held"]
    /\ UNCHANGED <<reader_core, isr_on, isr_base>>
    /\ UNCHANGED <<bridgeVars, irqVars, consoleVars, uartVars>>

\* Mutant: a drain task that keeps the guard of the lock over the next await.
drain_push_back_keeps_lock ==
    /\ CanRun("drain")
    /\ lock_pc["drain"] = "held"
    /\ RECEIVE_BUFFER' = LineBufferPush(RECEIVE_BUFFER, cur_byte[1])
    /\ cur_byte' = <<>>
    /\ pc_exec' = "pop1"
    /\ UNCHANGED <<UART_RECEIVE_QUEUE, WAKER, NEXT_ID, tasks, task_queue, cur_task,
                   isr_pc, nPushed, droppedFull, droppedUninit, obtained, cycle>>
    /\ UNCHANGED <<pc_exec2, task_ids, irqVars, consoleVars, uartVars, lockVars>>

\* if buffer.len() < 1024 { buffer.push_back(byte) } and the end of the block,
\* where the guard is dropped, before the loop awaits the next byte
drain_push_back_unlock ==
    /\ CanRun("drain")
    /\ lock_pc["drain"] = "held"
    /\ RECEIVE_BUFFER' = LineBufferPush(RECEIVE_BUFFER, cur_byte[1])
    /\ cur_byte' = <<>>
    /\ pc_exec' = "pop1"
    /\ lock_pc' = [lock_pc EXCEPT !["drain"] = "out"]
    /\ UNCHANGED <<UART_RECEIVE_QUEUE, WAKER, NEXT_ID, tasks, task_queue, cur_task,
                   isr_pc, nPushed, droppedFull, droppedUninit, obtained, cycle>>
    /\ UNCHANGED <<reader_core, isr_on, isr_base>>
    /\ UNCHANGED <<pc_exec2, task_ids, irqVars, consoleVars, uartVars>>

\* The steps of the executor thread outside the body of the drain loop
ExecutorStepOutsideLock ==
    \/ init_async_irq_runtime
    \/ ExecutorRunReady
    \/ ExecutorPollPending
    \/ UartStream_new
    \/ poll_next_pop
    \/ poll_next_register
    \/ poll_next_pop_again
    \/ poll_next_take

\* The executor thread runs
DrainRun ==
    \/ CanRun("drain") /\ ExecutorStepOutsideLock
    \/ drain_lock_begin
    \/ drain_lock_acquire
    \/ drain_push_back_unlock

\* getchar of the reader: RECEIVE_BUFFER.lock(), interrupts and preemption off
getchar_lock_begin ==
    /\ CanRun("reader")
    /\ stdin_pc = "fill"
    /\ lock_pc["reader"] = "out"
    /\ lock_pc' = [lock_pc EXCEPT !["reader"] = "spin"]
    /\ UNCHANGED <<reader_core, isr_on, isr_base>>
    /\ UNCHANGED <<bridgeVars, irqVars, consoleVars, uartVars>>

\* RECEIVE_BUFFER.lock(): the spin ends when the lock is free
getchar_lock_acquire ==
    /\ CanRun("reader")
    /\ lock_pc["reader"] = "spin"
    /\ lock_pc["drain"] # "held"
    /\ lock_pc' = [lock_pc EXCEPT !["reader"] = "held"]
    /\ UNCHANGED <<reader_core, isr_on, isr_base>>
    /\ UNCHANGED <<bridgeVars, irqVars, consoleVars, uartVars>>

\* RECEIVE_BUFFER.lock().pop_front(): the guard is dropped with the statement
getchar_pop_unlock ==
    /\ CanRun("reader")
    /\ lock_pc["reader"] = "held"
    /\ ReadBytesGetchar
    /\ lock_pc' = [lock_pc EXCEPT !["reader"] = "out"]
    /\ UNCHANGED <<reader_core, isr_on, isr_base>>

\* The reading thread runs within a Stdin::read call
ReaderRun ==
    \/ CanRun("reader") /\ BufReader_read
    \/ CanRun("reader") /\ yield_now
    \/ getchar_lock_begin
    \/ getchar_lock_acquire
    \/ getchar_pop_unlock

NextLock ==
    \/ DrainRun
    \/ ReaderRun
    \/ CanRun("reader") /\ Stdin_read
    \/ reader_migrates
    \/ isr_enter
    \/ IsrRun

\* Every thread that can run is scheduled again and again, and an ISR that has
\* been entered runs to its return
SpecLock ==
    /\ Init
    /\ [][NextLock]_vars
    /\ WF_vars(DrainRun)
    /\ WF_vars(ReaderRun)
    /\ WF_vars(IsrRun)

---------------------------------------------------------------------------
(* C25 *)

\* Stdin::read returns to its caller
IsReturnStep == stdin_pc # "idle" /\ stdin_pc' = "idle"

\* An attempt of Stdin::read ends having read nothing
IsEmptyAttempt == stdin_pc = "fill" /\ stdin_pc' \in {"read", "yield"}

\* C25 as stated: a Stdin::read call with a non-empty buffer returns only with
\* at least one byte; whenever an attempt finds the line buffer empty, the
\* thread yields before it retries; and once a byte is in the line buffer the
\* call returns.
C25_YieldsBeforeEveryRetry ==
    /\ [][/\ IsReturnStep => Len(consumed') > Len(consumed)
          /\ IsEmptyAttempt => stdin_pc' = "yield"]_vars
    /\ (stdin_pc # "idle" /\ RECEIVE_BUFFER # <<>>) ~> (stdin_pc = "idle")

\* C25, amended: a Stdin::read call with a non-empty buffer returns only with
\* at least one byte and at most buf.len() bytes; the first attempt that finds
\* the line buffer empty is retried once at once, and every later attempt that
\* finds it empty is followed by yield_now before the next attempt; and once a
\* byte is in the line buffer the call returns.
C25_BlockingRead ==
    /\ [][/\ IsReturnStep =>
                /\ Len(consumed') > Len(consumed)
                /\ Len(consumed') <= Len(consumed) + stdin_n
          /\ IsEmptyAttempt =>
                IF stdin_first THEN stdin_pc' = "read" ELSE stdin_pc' = "yield"
          /\ (stdin_pc' = "read" /\ stdin_pc \notin {"idle", "read"}) =>
                \/ stdin_pc = "yield"
                \/ stdin_pc = "fill" /\ stdin_first]_vars
    /\ (stdin_pc # "idle" /\ RECEIVE_BUFFER # <<>>) ~> (stdin_pc = "idle")

\* A call that found the line buffer empty, yielded, and returned a byte later
C25_Witness ==
    /\ stdin_pc = "idle"
    /\ stdin_yielded
    /\ consumed # <<>>

---------------------------------------------------------------------------
(* C26 *)

\* a is an order-preserving subsequence of b
RECURSIVE IsSubseq(_, _)
IsSubseq(a, b) ==
    IF a = <<>> THEN TRUE
    ELSE IF b = <<>> THEN FALSE
    ELSE IF Head(a) = Head(b) THEN IsSubseq(Tail(a), Tail(b))
    ELSE IsSubseq(a, Tail(b))

\* The bytes the ISR has passed to push, in order
Pushed == [i \in 1..nPushed |-> ByteAt(i)]

\* The bytes the console reader has taken out of the line buffer
ReadByReader == consumed \o stdin_buf

\* The sequence q with a line feed in the place of every carriage return
CrToLfSeq(q) == [i \in 1..Len(q) |-> IF q[i] = 13 THEN 10 ELSE q[i]]

\* No byte was lost at the bridge, and the drain task has not obtained more
\* bytes than the line buffer holds, so none was lost there
NoOverflow == droppedFull = {} /\ Len(obtained) <= LineBufferLimit

\* C26 as stated: the bytes read by the console reader, then the line buffer,
\* then the bridge queue are an order-preserving subsequence of the bytes
\* passed to push, and the whole of them when nothing overflowed.
C26_EndToEndOrder ==
    LET all == ReadByReader \o RECEIVE_BUFFER \o UART_RECEIVE_QUEUE.items IN
    /\ IsSubseq(all, Pushed)
    /\ NoOverflow => all = Pushed

\* C26, amended: the bytes read by the console reader, in which a line feed
\* stands for every carriage return pushed, then the line buffer, then the byte
\* the drain task has popped and not yet appended, then the bridge queue are
\* an order-preserving subsequence of the bytes passed to push, and the whole
\* of them when nothing overflowed and no byte was pushed before the queue
\* was created.
C26_EndToEndOrderConverted ==
    LET rest == RECEIVE_BUFFER \o cur_byte \o UART_RECEIVE_QUEUE.items
        n    == Len(ReadByReader) IN
    /\ \E k \in 0..nPushed :
          /\ IsSubseq(ReadByReader, CrToLfSeq(SubSeq(Pushed, 1, k)))
          /\ IsSubseq(rest, SubSeq(Pushed, k + 1, nPushed))
    /\ (NoOverflow /\ droppedUninit = {}) =>
          /\ n <= nPushed
          /\ ReadByReader = CrToLfSeq(SubSeq(Pushed, 1, n))
          /\ rest = SubSeq(Pushed, n + 1, nPushed)

\* C26 witness: nothing was lost, the reader has read a carriage return as a
\* line feed, and the drain task holds a byte between pop and append.
C26_Witness ==
    /\ NoOverflow /\ droppedUninit = {}
    /\ \E i \in 1..Len(consumed) : ByteAt(i) = 13 /\ consumed[i] = 10
    /\ cur_byte # <<>>
    /\ pc_exec = "append"

---------------------------------------------------------------------------
(* C27 *)

\* C27 (Parked implies drained): while the drain task is Parked and no push
\* stands between its enqueue and its wake step, the bridge queue is empty;
\* and poll_next returns Pending only from the second pop, which follows the
\* registration of the task's waker within the same poll and finds the queue
\* empty, the waker being still registered unless a wake has taken it and put
\* the task back into the run-queue.
C27_ParkedImpliesDrained ==
    /\ [](\A t \in DOMAIN tasks :
            (Parked(t) /\ isr_pc = "idle") => UART_RECEIVE_QUEUE.items = <<>>)
    /\ [][ /\ (pc_exec' = "pending" /\ pc_exec # "pending") =>
                /\ pc_exec = "pop2"
                /\ UART_RECEIVE_QUEUE.items = <<>>
                /\ UART_RECEIVE_QUEUE' = UART_RECEIVE_QUEUE
                /\ WAKER = cur_task \/ cur_task \subseteq Range(task_queue)
           /\ (pc_exec' = "pop2" /\ pc_exec # "pop2") =>
                /\ pc_exec = "register"
                /\ WAKER' = cur_task
                /\ cur_task' = cur_task ]_vars

\* C27 witness: the drain task has obtained bytes, is Parked with its waker
\* registered, no push is in progress, and the bridge queue is empty.
C27_Witness ==
    /\ \E t \in DOMAIN tasks : Parked(t) /\ WAKER = {t}
    /\ isr_pc = "idle"
    /\ UART_RECEIVE_QUEUE.init /\ UART_RECEIVE_QUEUE.items = <<>>
    /\ Len(obtained) = 2
    /\ pc_exec = "run"

---------------------------------------------------------------------------
(* C28 *)

\* C28 (the drain makes progress): with the executor thread scheduled again
\* and again and finitely many pushes, every byte in the bridge queue gets
\* into the line buffer, unless the line buffer is full; and when the executor
\* idles on an empty run-queue while a push is about to fire the registered
\* waker, the drain task gets back into the run-queue and is polled.
C28_DrainProgress ==
    /\ \A k \in 1..MaxPush :
          (ByteAt(k) \in Range(UART_RECEIVE_QUEUE.items)) ~>
              \/ ByteAt(k) \in Range(RECEIVE_BUFFER)
              \/ Len(RECEIVE_BUFFER) = LineBufferLimit
    /\ \A t \in 0..1 :
          (DrainParked /\ cur_task = {} /\ isr_pc = "wake" /\ WAKER = {t}) ~>
              (cur_task = {t} /\ pc_exec = "pop1")
    /\ [][(DrainParked /\ cur_task = {} /\ IsWakeStep /\ WAKER # {}) =>
              (Range(task_queue') = WAKER /\ Len(task_queue') = 1)]_vars

\* C28 witness: the executor idled on an empty run-queue, a push fired the
\* waker, the drain task was polled again, and the last byte of the
\* behaviour is in the line buffer.
C28_Witness ==
    /\ ByteAt(MaxPush) \in Range(RECEIVE_BUFFER)
    /\ Len(RECEIVE_BUFFER) >= 2
    /\ cycle.st = "done"
    /\ DrainParked /\ cur_task = {}
    /\ isr_pc = "idle"

---------------------------------------------------------------------------
(* C29 *)

\* The bytes the device has received, in order
Arrived == [i \in 1..nArrived |-> ByteAt(i)]

\* C29 (the UART ISR forwards every byte once, in order): the bytes passed to
\* the notify function are the bytes read from the FIFO, in the order of the
\* hardware, each passed once before the next is read; inside the loop the
\* handler returns only when the FIFO is empty, also after the bridge has
\* dropped a byte; and a handler entered for another cause than receive
\* passes nothing on and leaves the FIFO alone.
C29_IsrForwardsEveryByte ==
    /\ [](/\ uart_taken \o uart_fifo = Arrived
          /\ uart_pushed \o uart_byte = uart_taken
          /\ Len(uart_pushed) = nPushed
          /\ uart_byte # <<>> <=> uart_pc = "notify")
    /\ [][ /\ (uart_pc = "getchar" /\ uart_pc' = "idle") => uart_fifo = <<>>
           /\ uart_pc = "notify" =>
                \/ UNCHANGED uart_pc
                \/ /\ uart_pushed' = Append(uart_pushed, uart_byte[1])
                   /\ uart_pc' = "getchar"
           /\ (uart_pushed' # uart_pushed \/ uart_taken' # uart_taken) =>
                uart_rx /\ uart_pc \in {"getchar", "notify"}
           /\ (uart_pc = "ack" /\ ~uart_rx) => uart_pc' \in {"ack", "idle"} ]_vars

\* C29 witness: the bridge was full and has dropped two bytes, and the handler
\* has read on and left the FIFO empty.
C29_Witness ==
    /\ Cardinality(droppedFull) = 2
    /\ uart_pc = "idle" /\ uart_fifo = <<>>
    /\ Len(uart_pushed) = nArrived
    /\ Len(UART_RECEIVE_QUEUE.items) = QueueCapacity

---------------------------------------------------------------------------
(* C30 *)

\* The contexts that hold the lock of the line buffer
Holders == {ctx \in DOMAIN lock_pc : lock_pc[ctx] = "held"}

===========================================================================
